---- MODULE Spec2Model ----
(***************************************************************************)
(* Model of demo_cases/parametric_potential_flow/potential_flow_2d.py:     *)
(* the symbolic equation system Poisson_2D, the module-level geometry      *)
(* (rec, obstacle, wake and their rotation), the registration of the       *)
(* sub-domains of PotentialTrain / PotentialInference, and the parameter   *)
(* sampling rule fixed_param_range invoked by concurrent training workers. *)
(*                                                                         *)
(* Units: lengths are integers in thousandths (obstacle_length 0.10 is     *)
(* 100); angles are integer degrees; 10*sin and 10*cos are integers in     *)
(* units of 1e-4; quotients are exact rationals <<num, den>>, den > 0.     *)
(***************************************************************************)
EXTENDS Integers, Sequences, FiniteSets, TLC

VARIABLES
    pc,              \* position in the program: module level, construction, run
    obstacle,        \* the Line obstacle (mutated in place by rotate)
    wake,            \* the Line wake (mutated in place by rotate)
    trainDomain,     \* PotentialTrain: ordered sub-domains registered by add
    inferenceDomain, \* PotentialInference: ordered sub-domains registered by add
    equations,       \* Poisson_2D().equations: name -> symbolic expression
    evaluated,       \* last evaluation of the equations on a concrete field
    rng,             \* state of the process-wide generator behind np.random
    stepNo,          \* training steps completed
    nextSd,          \* index of the next sub-domain whose rule is to be invoked
    wpc,             \* per worker: position inside the sampling rule
    wsd,             \* per worker: sub-domain index of its current / last call
    wn,              \* per worker: batch_size argument of its current / last call
    wdraw,           \* per worker: value np.random.uniform returned to the call
    wret,            \* per worker: what the call returned (batch, error, nothing)
    stepAlpha        \* per sub-domain: alpha drawn by its invocation in this step

vars == <<pc, obstacle, wake, trainDomain, inferenceDomain, equations, evaluated,
          rng, stepNo, nextSd, wpc, wsd, wn, wdraw, wret, stepAlpha>>

buildVars == <<pc, obstacle, wake, trainDomain, inferenceDomain, equations>>
trainVars == <<rng, stepNo, nextSd, wpc, wsd, wn, wdraw, wret, stepAlpha>>

-----------------------------------------------------------------------------
(* Bounds of the model *)

\* largest |coefficient| of the test fields a*x^2 + b*y^2
MaxCoef == 3
\* the polynomials' largest exponent per variable
MaxDegree == 2
\* largest batch_size a worker passes to the sampling rule
MaxBatch == 2
\* training steps modelled
MaxSteps == 1
\* number of states of the modelled random generator
RngModulus == 4

Workers == {"w1", "w2"}

-----------------------------------------------------------------------------
(* Exact rationals <<num, den>> with den > 0 *)

RatAdd(p, q) == <<p[1] * q[2] + q[1] * p[2], p[2] * q[2]>>
RatEq(p, q) == p[1] * q[2] = q[1] * p[2]
RatGe(p, q) == p[1] * q[2] >= q[1] * p[2]

-----------------------------------------------------------------------------
(* Symbolic equation system: class Poisson_2D *)

Exps == 0..MaxDegree

\* a polynomial in x, y: coefficient of x^i * y^j at <<i, j>>
ZeroPoly == [e \in Exps \X Exps |-> 0]

\* the concrete field phi = a*x^2 + b*y^2
Field(a, b) ==
    [e \in Exps \X Exps |-> IF e = <<2, 0>> THEN a ELSE IF e = <<0, 2>> THEN b ELSE 0]

\* sympy's expr.diff(var) on a polynomial
Diff(p, var) ==
    [e \in Exps \X Exps |->
        IF var = "x"
        THEN IF e[1] < MaxDegree THEN (e[1] + 1) * p[<<e[1] + 1, e[2]>>] ELSE 0
        ELSE IF e[2] < MaxDegree THEN (e[2] + 1) * p[<<e[1], e[2] + 1>>] ELSE 0]

PolyAdd(p, q) == [e \in Exps \X Exps |-> p[e] + q[e]]

\* a chain of .diff() calls applied to phi, e.g. <<"x", "x">> is phi.diff(x).diff(x)
RECURSIVE DiffChain(_, _)
DiffChain(p, chain) ==
    IF chain = <<>> THEN p ELSE DiffChain(Diff(p, Head(chain)), Tail(chain))

\* an expression is a sum of diff chains of phi
RECURSIVE Evaluate(_, _)
Evaluate(expr, p) ==
    IF expr = <<>> THEN ZeroPoly
    ELSE PolyAdd(DiffChain(p, Head(expr)), Evaluate(Tail(expr), p))

\* a plausible slip: the second term differentiates in x and then in y
Poisson_2D_equations_mixed ==
    [u |-> << <<"x">> >>,
     v |-> << <<"y">> >>,
     Poisson_2D |-> << <<"x", "x">>, <<"x", "y">> >>]

\* self.equations as built by Poisson_2D.__init__
Poisson_2D_equations ==
    [u |-> << <<"x">> >>,
     v |-> << <<"y">> >>,
     Poisson_2D |-> << <<"x", "x">>, <<"y", "y">> >>]

NoEquations == [none |-> TRUE]
NoEval == [none |-> TRUE]

\* the constant polynomial c
ConstPoly(c) == [e \in Exps \X Exps |-> IF e = <<0, 0>> THEN c ELSE 0]

-----------------------------------------------------------------------------
(* Parameters of the domain and module-level geometry *)

obstacle_length == 100
height == 6 * obstacle_length
width == 6 * obstacle_length

\* rec = Rectangle((-width/2, -height/2), (width/2, height/2))
rec == [lo |-> <<-(width \div 2), -(height \div 2)>>,
        hi |-> <<width \div 2, height \div 2>>]

\* Line(point_1, point_2, normal)
Line(p1, p2, normal) == [p1 |-> p1, p2 |-> p2, normal |-> normal]

\* cos and sin of a whole number of quarter turns (np.pi / 2 is one quarter turn)
CosQ(q) == <<1, 0, -1, 0>>[(q % 4) + 1]
SinQ(q) == <<0, 1, 0, -1>>[(q % 4) + 1]

\* a plausible slip: the rotation turns clockwise
RotatePoint_cw(p, q) ==
    <<CosQ(q) * p[1] + SinQ(q) * p[2], CosQ(q) * p[2] - SinQ(q) * p[1]>>

\* the rigid rotation about the origin applied by rotate(angle), counter-clockwise
RotatePoint(p, q) ==
    <<CosQ(q) * p[1] - SinQ(q) * p[2], SinQ(q) * p[1] + CosQ(q) * p[2]>>

\* geometry.rotate(angle): both endpoints are rotated, the primitive is updated in place
Rotate(line, q) ==
    [line EXCEPT !.p1 = RotatePoint(line.p1, q), !.p2 = RotatePoint(line.p2, q)]

\* sample positions: a grid of step obstacle_length / 4 over the rectangle
GridStep == obstacle_length \div 4
Coords == {k * GridStep : k \in -12..12}
Points == Coords \X Coords

Min(a, b) == IF a <= b THEN a ELSE b
Max(a, b) == IF a >= b THEN a ELSE b

\* the boundary of the rectangle
OnRecBoundary(p) ==
    /\ rec.lo[1] <= p[1] /\ p[1] <= rec.hi[1]
    /\ rec.lo[2] <= p[2] /\ p[2] <= rec.hi[2]
    /\ \/ p[1] = rec.lo[1] \/ p[1] = rec.hi[1]
       \/ p[2] = rec.lo[2] \/ p[2] = rec.hi[2]

\* the points of a line segment
OnLine(line, p) ==
    /\ (line.p2[1] - line.p1[1]) * (p[2] - line.p1[2])
         = (line.p2[2] - line.p1[2]) * (p[1] - line.p1[1])
    /\ Min(line.p1[1], line.p2[1]) <= p[1] /\ p[1] <= Max(line.p1[1], line.p2[1])
    /\ Min(line.p1[2], line.p2[2]) <= p[2] /\ p[2] <= Max(line.p1[2], line.p2[2])

-----------------------------------------------------------------------------
(* The free parameter alpha and the target expressions *)

\* alpha ranges over [-10, 10] degrees
AlphaLow == -10
AlphaHigh == 10
AlphaRange == AlphaLow..AlphaHigh

Abs(i) == IF i < 0 THEN -i ELSE i

\* 10*sin(alpha) and 10*cos(alpha), alpha in degrees, in units of 1e-4
SinTable == <<0, 1745, 3490, 5234, 6976, 8716, 10453, 12187, 13917, 15643, 17365>>
CosTable == <<100000, 99985, 99939, 99863, 99756, 99619, 99452, 99255, 99027, 98769, 98481>>
Sin10(a) == IF a < 0 THEN -SinTable[Abs(a) + 1] ELSE SinTable[a + 1]
Cos10(a) == CosTable[Abs(a) + 1]

\* a plausible slip: the blend runs the other way, 1 at the trailing edge
l_reversed(x) == <<3 * obstacle_length - x, 3 * obstacle_length>>

\* l = lambda x : (x)/(3*obstacle_length)
l(x) == <<x, 3 * obstacle_length>>

\* target expressions: c*10*cos(alpha) + s*10*sin(alpha), times l(x) when lin
u_x == [c |-> 1, s |-> 0, lin |-> FALSE]
u_y == [c |-> 0, s |-> 1, lin |-> FALSE]
Zero == [c |-> 0, s |-> 0, lin |-> FALSE]
TimesL(e) == [e EXCEPT !.lin = TRUE]
NoExpr == [none |-> TRUE]

\* the value of a target expression at position x and angle a, as a rational
Eval(e, x, a) ==
    LET base == e.c * Cos10(a) + e.s * Sin10(a)
    IN  IF e.lin THEN <<base * l(x)[1], l(x)[2]>> ELSE <<base, 1>>

-----------------------------------------------------------------------------
(* Sub-domains built by PotentialTrain.__init__ and PotentialInference.__init__ *)

NoBounds == [none |-> TRUE]
Bounds(xlo, xhi, ylo, yhi) == [xlo |-> xlo, xhi |-> xhi, ylo |-> ylo, yhi |-> yhi]

\* geo.boundary_bc(outvar_sympy, batch_size_per_area, criteria, lambda_sympy, ...)
boundary_bc(geom, u, v, density, criteria, weight) ==
    [kind |-> "boundary", geo |-> geom, u |-> u, v |-> v, Poisson_2D |-> NoExpr,
     batch_size_per_area |-> density, criteria |-> criteria,
     lambda_u |-> weight, lambda_v |-> weight, lambda_Poisson_2D |-> "none",
     bounds |-> NoBounds, param_ranges |-> "fixed_param_range", fixed_var |-> FALSE]

\* geo.interior_bc(outvar_sympy, bounds, lambda_sympy, batch_size_per_area, ...)
interior_bc(geom, residual, bounds, density) ==
    [kind |-> "interior", geo |-> geom, u |-> NoExpr, v |-> NoExpr, Poisson_2D |-> residual,
     batch_size_per_area |-> density, criteria |-> "none",
     lambda_u |-> 0, lambda_v |-> 0, lambda_Poisson_2D |-> "sdf",
     bounds |-> bounds, param_ranges |-> "fixed_param_range", fixed_var |-> FALSE]

inletBC == boundary_bc("rec", u_x, u_y, 250, "Eq(x, -width/2)", 1)
outletBC == boundary_bc("rec", u_x, u_y, 500, "Ge(y/height+x/width, 1/2)", 1)
bottomWall == boundary_bc("rec", u_x, u_y, 250, "Eq(y, -height/2)", 1)
obstacleLine == boundary_bc("obstacle", u_x, Zero, 500, "none", 100)
wakeLine == boundary_bc("wake", u_x, TimesL(u_y), 500, "none", 100)
interior ==
    interior_bc("rec", Zero,
                Bounds(-(width \div 2), width \div 2, -(height \div 2), height \div 2), 2000)

\* a plausible slip: the bounds of the interior copied unchanged
neighbourhood_full ==
    interior_bc("rec", Zero,
                Bounds(-(width \div 2), width \div 2, -(height \div 2), height \div 2), 2000)

neighbourhood ==
    interior_bc("rec", Zero,
                Bounds(-(height \div 3), height \div 3, -(height \div 8), height \div 8), 2000)

\* Inference(geo.sample_interior(1e6, bounds=...), ['u','v','phi'])
inference ==
    [kind |-> "inference", geo |-> "rec",
     bounds |-> Bounds(-(width \div 2), width \div 2, -(height \div 2), height \div 2),
     outputs |-> <<"u", "v", "phi">>]

Named(sd, name) == [name |-> name, sd |-> sd]

\* a plausible slip: the last sub-domain registered under the name of the one before
PotentialTrain_adds_dup ==
    << Named(inletBC, "Inlet"), Named(outletBC, "Outlet"), Named(bottomWall, "BottomWall"),
       Named(obstacleLine, "obstacleLine"), Named(wakeLine, "wakeLine"),
       Named(interior, "Interior"), Named(neighbourhood, "Interior") >>

\* the self.add(sub_domain, name) calls of PotentialTrain.__init__, in order
PotentialTrain_adds ==
    << Named(inletBC, "Inlet"), Named(outletBC, "Outlet"), Named(bottomWall, "BottomWall"),
       Named(obstacleLine, "obstacleLine"), Named(wakeLine, "wakeLine"),
       Named(interior, "Interior"), Named(neighbourhood, "Neighbourhood") >>

\* the self.add(sub_domain, name) calls of PotentialInference.__init__
PotentialInference_adds == << Named(inference, "Inference") >>

\* domain.add(sub_domain, name): the sub-domain joins the ordered collection
add(domain, entry) == Append(domain, entry)

\* a plausible slip: the comparison is strict
OutletCriteria_strict(p) == ~RatGe(<<1, 2>>, RatAdd(<<p[2], height>>, <<p[1], width>>))

\* criteria=Ge(y/height+x/width, 1/2)
OutletCriteria(p) == RatGe(RatAdd(<<p[2], height>>, <<p[1], width>>), <<1, 2>>)

\* the criteria of a boundary sub-domain at a point
Criteria(c, p) ==
    CASE c = "Eq(x, -width/2)" -> p[1] = -(width \div 2)
      [] c = "Eq(y, -height/2)" -> p[2] = -(height \div 2)
      [] c = "Ge(y/height+x/width, 1/2)" -> OutletCriteria(p)
      [] OTHER -> TRUE

\* the region a boundary sub-domain draws its points from, given the geometry's state
InRegion(sd, p) ==
    /\ sd.kind = "boundary"
    /\ CASE sd.geo = "rec" -> OnRecBoundary(p)
         [] sd.geo = "obstacle" -> OnLine(obstacle, p)
         [] sd.geo = "wake" -> OnLine(wake, p)
         [] OTHER -> FALSE
    /\ Criteria(sd.criteria, p)

\* the target pair (u, v) a boundary sub-domain prescribes at p for angle a
Target(sd, p, a) == <<Eval(sd.u, p[1], a), Eval(sd.v, p[1], a)>>

-----------------------------------------------------------------------------
(* The parameter sampling rule fixed_param_range[alpha] *)

\* the generator's next state (a congruential generator of full period for every
\* modulus coprime to 3 stands for np.random's Mersenne Twister)
RngNext(r) == (r + 3) % RngModulus

\* np.random.uniform(low, high) = low + (high - low) * random_sample(), random_sample()
\* in [0, 1); here random_sample() = r / RngModulus, and the value is cut to whole degrees
np_random_uniform(low, high, r) == low + ((high - low) * r) \div RngModulus

Error == [kind |-> "error"]
None == [kind |-> "none"]

\* a plausible slip: the shape is transposed, one row of batch_size columns
np_full_transposed(n, value, id) ==
    IF n < 0 THEN Error
    ELSE [kind |-> "batch", id |-> id, data |-> << [j \in 1..n |-> value] >>]

\* np.full((batch_size, 1), value): a new array of batch_size rows of one column;
\* a negative dimension raises ValueError
np_full(n, value, id) ==
    IF n < 0 THEN Error
    ELSE [kind |-> "batch", id |-> id, data |-> [i \in 1..n |-> <<value>>]]

\* a plausible slip: the rule hands out one cached array
FreshId_cached(live) == 1

\* the identity of a newly allocated array: distinct from every live array
FreshId(live) == CHOOSE i \in 1..(Cardinality(live) + 1) : i \notin live

\* the arrays the workers currently hold
LiveIds == {wret[w].id : w \in {x \in Workers : wret[x].kind = "batch"}}

BatchSizes == -1..MaxBatch

-----------------------------------------------------------------------------
(* Initial state: the module has run up to line 52 (the geometry is constructed), *)
(* numpy's generator is seeded                                                    *)

Init ==
    /\ pc = "rotate_obstacle"
    /\ obstacle = Line(<<0, 0>>, <<0, obstacle_length>>, 1)
    /\ wake = Line(<<0, -3 * obstacle_length>>, <<0, 0>>, 1)
    /\ trainDomain = <<>>
    /\ inferenceDomain = <<>>
    /\ equations = NoEquations
    /\ evaluated = NoEval
    /\ rng \in 0..(RngModulus - 1)
    /\ stepNo = 0
    /\ nextSd = 1
    /\ wpc = [w \in Workers |-> "idle"]
    /\ wsd = [w \in Workers |-> 0]
    /\ wn = [w \in Workers |-> 0]
    /\ wdraw = [w \in Workers |-> <<>>]
    /\ wret = [w \in Workers |-> None]
    /\ stepAlpha = [i \in 1..Len(PotentialTrain_adds) |-> <<>>]

-----------------------------------------------------------------------------
(* Module level and construction *)

\* obstacle.rotate(np.pi / 2)
RotateObstacle ==
    /\ pc = "rotate_obstacle"
    /\ obstacle' = Rotate(obstacle, 1)
    /\ pc' = "rotate_wake"
    /\ UNCHANGED <<wake, trainDomain, inferenceDomain, equations, evaluated, trainVars>>

\* wake.rotate(np.pi / 2)
RotateWake ==
    /\ pc = "rotate_wake"
    /\ wake' = Rotate(wake, 1)
    /\ pc' = "PotentialTrain"
    /\ UNCHANGED <<obstacle, trainDomain, inferenceDomain, equations, evaluated, trainVars>>

\* PotentialTrain.__init__: the next self.add(...) call
PotentialTrain_add ==
    /\ pc = "PotentialTrain"
    /\ LET k == Len(trainDomain) + 1
       IN  /\ trainDomain' = add(trainDomain, PotentialTrain_adds[k])
           /\ pc' = IF k = Len(PotentialTrain_adds) THEN "PotentialInference" ELSE pc
    /\ UNCHANGED <<obstacle, wake, inferenceDomain, equations, evaluated, trainVars>>

\* PotentialInference.__init__: the next self.add(...) call
PotentialInference_add ==
    /\ pc = "PotentialInference"
    /\ LET k == Len(inferenceDomain) + 1
       IN  /\ inferenceDomain' = add(inferenceDomain, PotentialInference_adds[k])
           /\ pc' = IF k = Len(PotentialInference_adds) THEN "PotentialSolver" ELSE pc
    /\ UNCHANGED <<obstacle, wake, trainDomain, equations, evaluated, trainVars>>

\* PotentialSolver.__init__: self.equations = Poisson_2D().make_node()
Poisson_2D_init ==
    /\ pc = "PotentialSolver"
    /\ equations' = Poisson_2D_equations
    /\ pc' = "run"
    /\ UNCHANGED <<obstacle, wake, trainDomain, inferenceDomain, evaluated, trainVars>>

\* the equations evaluated on the concrete field phi = a*x^2 + b*y^2
EvaluateEquations ==
    /\ pc = "run"
    /\ \E a \in -MaxCoef..MaxCoef, b \in -MaxCoef..MaxCoef :
          evaluated' = [a |-> a, b |-> b,
                        u |-> Evaluate(equations.u, Field(a, b)),
                        v |-> Evaluate(equations.v, Field(a, b)),
                        Poisson_2D |-> Evaluate(equations.Poisson_2D, Field(a, b))]
    /\ UNCHANGED <<buildVars, trainVars>>

-----------------------------------------------------------------------------
(* Training: the workers invoke the sub-domains' sampling rules *)

\* the training loop hands the next sub-domain's rule and a batch size to an idle worker
Call(w) ==
    /\ pc = "run"
    /\ stepNo < MaxSteps
    /\ wpc[w] = "idle"
    /\ nextSd <= Len(trainDomain)
    /\ \E n \in BatchSizes : wn' = [wn EXCEPT ![w] = n]
    /\ wsd' = [wsd EXCEPT ![w] = nextSd]
    /\ wpc' = [wpc EXCEPT ![w] = "called"]
    /\ nextSd' = nextSd + 1
    /\ UNCHANGED <<buildVars, evaluated, rng, stepNo, wdraw, wret, stepAlpha>>

\* inside the lambda: the argument np.random.uniform(-np.pi*10/180, np.pi*10/180) is
\* evaluated first; it reads and advances the generator (atomically, under its lock)
Uniform(w) ==
    /\ wpc[w] = "called"
    /\ wdraw' = [wdraw EXCEPT ![w] = <<np_random_uniform(AlphaLow, AlphaHigh, rng)>>]
    /\ rng' = RngNext(rng)
    /\ wpc' = [wpc EXCEPT ![w] = "drawn"]
    /\ UNCHANGED <<buildVars, evaluated, stepNo, nextSd, wsd, wn, wret, stepAlpha>>

\* inside the lambda: np.full((batch_size, 1), <the drawn value>) and return
Full(w) ==
    /\ wpc[w] = "drawn"
    /\ wret' = [wret EXCEPT ![w] = np_full(wn[w], wdraw[w][1], FreshId(LiveIds))]
    /\ wpc' = [wpc EXCEPT ![w] = "returned"]
    /\ UNCHANGED <<buildVars, evaluated, rng, stepNo, nextSd, wsd, wn, wdraw, stepAlpha>>

\* the training loop collects the outcome of the call; the worker is idle again
Collect(w) ==
    /\ wpc[w] = "returned"
    /\ stepAlpha' = [stepAlpha EXCEPT ![wsd[w]] = wdraw[w]]
    /\ wpc' = [wpc EXCEPT ![w] = "idle"]
    /\ wret' = [wret EXCEPT ![w] = None]
    /\ wdraw' = [wdraw EXCEPT ![w] = <<>>]
    /\ wn' = [wn EXCEPT ![w] = 0]
    /\ wsd' = [wsd EXCEPT ![w] = 0]
    /\ UNCHANGED <<buildVars, evaluated, rng, stepNo, nextSd>>

\* every sub-domain's rule has been invoked once: the step ends, the next one starts
EndStep ==
    /\ pc = "run"
    /\ stepNo < MaxSteps
    /\ nextSd > Len(trainDomain)
    /\ \A w \in Workers : wpc[w] = "idle"
    /\ stepNo' = stepNo + 1
    /\ nextSd' = 1
    /\ stepAlpha' = [i \in DOMAIN stepAlpha |-> <<>>]
    /\ UNCHANGED <<buildVars, evaluated, rng, wpc, wsd, wn, wdraw, wret>>

-----------------------------------------------------------------------------
(* Specifications *)

Build ==
    \/ RotateObstacle
    \/ RotateWake
    \/ PotentialTrain_add
    \/ PotentialInference_add
    \/ Poisson_2D_init

\* the program with its training steps
Next ==
    \/ Build
    \/ \E w \in Workers : Call(w)
    \/ \E w \in Workers : Uniform(w)
    \/ \E w \in Workers : Full(w)
    \/ \E w \in Workers : Collect(w)
    \/ EndStep

Spec == Init /\ [][Next]_vars

\* the construction, and the equations evaluated on concrete fields
NextBuild ==
    \/ Build
    \/ EvaluateEquations

SpecBuild == Init /\ [][NextBuild]_vars

-----------------------------------------------------------------------------
(* Claims about the sampling rule, checked under Spec *)

Returned(w) == wpc[w] = "returned"

\* C1 (as stated): within one training step every sub-domain's batch carries the same
\* drawn value of alpha; for any two sub-domains of the step the values are identical.
C1_SameAlphaAcrossSubdomains ==
    \A i \in DOMAIN stepAlpha, j \in DOMAIN stepAlpha :
        (stepAlpha[i] # <<>> /\ stepAlpha[j] # <<>>) => stepAlpha[i] = stepAlpha[j]

\* C2: a call of the rule with batch_size n >= 1 returns a batch of exactly n entries,
\* all holding the identical alpha, and that alpha lies in [-10, +10] degrees.
C2_BatchOfOneAlpha ==
    \A w \in Workers :
        (Returned(w) /\ wn[w] >= 1) =>
            /\ wret[w].kind = "batch"
            /\ Len(wret[w].data) = wn[w]
            /\ \A i \in 1..Len(wret[w].data) :
                  /\ Len(wret[w].data[i]) = 1
                  /\ wret[w].data[i] = wret[w].data[1]
                  /\ AlphaLow <= wret[w].data[i][1]
                  /\ wret[w].data[i][1] <= AlphaHigh

C2_Witness ==
    \E w \in Workers :
        /\ Returned(w) /\ wn[w] >= 2 /\ wret[w].kind = "batch"
        /\ wret[w].data[2] = wret[w].data[1]

\* a step taken inside worker w's call of the rule (Uniform or Full)
RuleStep(w) == wpc[w] \in {"called", "drawn"} /\ wpc'[w] # wpc[w]

Locals(w) == <<wpc[w], wsd[w], wn[w], wdraw[w], wret[w]>>

\* C3 (as stated): concurrent calls mutate no state shared between calls; no call writes
\* state that another call reads.
C3_NoSharedStateWritten ==
    [][\A w \in Workers : RuleStep(w) =>
          /\ rng' = rng
          /\ \A o \in Workers \ {w} : Locals(o)' = Locals(o)]_vars

\* C3 (amended): the only shared state a call writes is the generator behind np.random,
\* which it reads and advances once; beyond that, under every interleaving each call
\* returns a freshly allocated batch, writes nothing another call holds, and its result
\* is np.full of its own batch_size and its own draw.
C3_OnlyGeneratorShared ==
    /\ [](\A w \in Workers : Returned(w) =>
             /\ wret[w] = np_full(wn[w], wdraw[w][1], IF wret[w].kind = "batch" THEN wret[w].id ELSE 0)
             /\ \A o \in Workers \ {w} :
                   (wret[w].kind = "batch" /\ wret[o].kind = "batch") => wret[o].id # wret[w].id)
    /\ [][\A w \in Workers : RuleStep(w) =>
             /\ \A o \in Workers \ {w} : Locals(o)' = Locals(o)
             /\ UNCHANGED <<buildVars, evaluated, stepNo, nextSd, stepAlpha>>
             /\ (wpc[w] = "called" => rng' = RngNext(rng))
             /\ (wpc[w] = "drawn" => rng' = rng)]_vars

C3_Witness ==
    /\ \A w \in Workers : Returned(w) /\ wret[w].kind = "batch" /\ wn[w] >= 1
    /\ \E w \in Workers, o \in Workers : wdraw[w] # wdraw[o]

\* C4 (as stated): a call of the rule with batch_size <= 0 ends in an error; it never
\* returns an empty batch.
C4_NonPositiveCountFails ==
    \A w \in Workers : (Returned(w) /\ wn[w] <= 0) => wret[w].kind = "error"

-----------------------------------------------------------------------------
(* Claims about the construction and the equations, checked under SpecBuild *)

Names(domain) == [i \in DOMAIN domain |-> domain[i].name]
Registered(name) == \E i \in DOMAIN trainDomain : trainDomain[i].name = name
SubDomain(name) == (CHOOSE e \in {trainDomain[i] : i \in DOMAIN trainDomain} : e.name = name).sd

\* C5: after every prefix of the add calls of PotentialTrain and PotentialInference, no
\* two sub-domains registered in the same domain have the same name.
C5_UniqueNames ==
    /\ \A i \in DOMAIN trainDomain, j \in DOMAIN trainDomain :
          trainDomain[i].name = trainDomain[j].name => i = j
    /\ \A i \in DOMAIN inferenceDomain, j \in DOMAIN inferenceDomain :
          inferenceDomain[i].name = inferenceDomain[j].name => i = j

C5_Witness ==
    /\ Names(trainDomain) = <<"Inlet", "Outlet", "BottomWall", "obstacleLine", "wakeLine",
                              "Interior", "Neighbourhood">>
    /\ Names(inferenceDomain) = <<"Inference">>

\* the trailing edge of the obstacle (x = 0) and the other end of the wake line
TrailingEdge == <<0, 0>>
WakeFarEnd == IF wake.p1 = TrailingEdge THEN wake.p2 ELSE wake.p1

\* C6 (as stated): on the rotated wake line, for every alpha the target of v equals the
\* free-stream value 10*sin(alpha) at the trailing edge (x = 0) and is 0 at the other end.
C6_FreeStreamAtTrailingEdge ==
    Registered("wakeLine") =>
        \A a \in AlphaRange :
            /\ RatEq(Target(SubDomain("wakeLine"), TrailingEdge, a)[2], <<Sin10(a), 1>>)
            /\ RatEq(Target(SubDomain("wakeLine"), WakeFarEnd, a)[2], <<0, 1>>)

\* C6 (amended): on the rotated wake line, which runs from the trailing edge (0, 0) to
\* (3*obstacle_length, 0), for every alpha the target of v is 0 at the trailing edge and
\* grows linearly, v = 10*sin(alpha) * x / (3*obstacle_length), to the free-stream value
\* 10*sin(alpha) at the other end.
C6_ZeroAtTrailingEdge ==
    Registered("wakeLine") =>
        /\ OnLine(wake, TrailingEdge)
        /\ WakeFarEnd = <<3 * obstacle_length, 0>>
        /\ \A a \in AlphaRange :
              /\ RatEq(Target(SubDomain("wakeLine"), TrailingEdge, a)[2], <<0, 1>>)
              /\ RatEq(Target(SubDomain("wakeLine"), WakeFarEnd, a)[2], <<Sin10(a), 1>>)
              /\ \A p \in Points : InRegion(SubDomain("wakeLine"), p) =>
                    RatEq(Target(SubDomain("wakeLine"), p, a)[2],
                          <<Sin10(a) * p[1], 3 * obstacle_length>>)

C6_Witness ==
    /\ Registered("wakeLine")
    /\ InRegion(SubDomain("wakeLine"), <<obstacle_length, 0>>)
    /\ \E a \in AlphaRange : Target(SubDomain("wakeLine"), WakeFarEnd, a)[2][1] > 0

Inside(b, c) ==
    /\ c.xlo <= b.xlo /\ b.xhi <= c.xhi
    /\ c.ylo <= b.ylo /\ b.yhi <= c.yhi

Contains(b, p) == b.xlo < p[1] /\ p[1] < b.xhi /\ b.ylo < p[2] /\ p[2] < b.yhi

RecBounds == Bounds(rec.lo[1], rec.hi[1], rec.lo[2], rec.hi[2])

InteriorPair ==
    /\ SubDomain("Interior").kind = "interior"
    /\ SubDomain("Neighbourhood").kind = "interior"
    /\ SubDomain("Interior").Poisson_2D = Zero
    /\ SubDomain("Neighbourhood").Poisson_2D = Zero
    /\ SubDomain("Interior").bounds = RecBounds
    /\ Inside(SubDomain("Neighbourhood").bounds, RecBounds)
    /\ SubDomain("Neighbourhood").bounds # RecBounds
    /\ Contains(SubDomain("Neighbourhood").bounds, obstacle.p1)
    /\ Contains(SubDomain("Neighbourhood").bounds, obstacle.p2)

\* C7 (as stated): the Training Domain holds Interior (bounds = the full rectangle) and
\* Neighbourhood (bounds = a tighter box around the obstacle), both forcing Poisson_2D to
\* 0, registered with different sample densities.
C7_DifferentDensities ==
    (Registered("Interior") /\ Registered("Neighbourhood")) =>
        /\ InteriorPair
        /\ SubDomain("Interior").batch_size_per_area
             # SubDomain("Neighbourhood").batch_size_per_area

\* C7 (amended): the Training Domain holds Interior (bounds = the full rectangle) and
\* Neighbourhood (bounds = a tighter box around the obstacle), both forcing Poisson_2D to
\* 0, registered with the same sample density, batch_size_per_area = 2000.
C7_SameDensity ==
    (Registered("Interior") /\ Registered("Neighbourhood")) =>
        /\ InteriorPair
        /\ SubDomain("Interior").batch_size_per_area = 2000
        /\ SubDomain("Neighbourhood").batch_size_per_area = 2000

C7_Witness ==
    /\ Registered("Interior") /\ Registered("Neighbourhood")
    /\ SubDomain("Neighbourhood").bounds.yhi < SubDomain("Interior").bounds.yhi

\* C8: a point (x, y) of the rectangle's boundary belongs to the Outlet exactly when
\* y/height + x/width >= 1/2; (width/2, height/2) belongs to it, (-width/2, -height/2)
\* does not.
C8_OutletMembership ==
    Registered("Outlet") =>
        /\ \A p \in Points :
              InRegion(SubDomain("Outlet"), p) <=>
                  (OnRecBoundary(p) /\ 2 * (p[2] * width + p[1] * height) >= height * width)
        /\ InRegion(SubDomain("Outlet"), <<width \div 2, height \div 2>>)
        /\ ~InRegion(SubDomain("Outlet"), <<-(width \div 2), -(height \div 2)>>)

C8_Witness ==
    /\ Registered("Outlet")
    /\ InRegion(SubDomain("Outlet"), <<width \div 2, 0>>)
    /\ InRegion(SubDomain("Outlet"), <<0, height \div 2>>)
    /\ ~InRegion(SubDomain("Outlet"), <<-GridStep, height \div 2>>)

HasEvaluated == "Poisson_2D" \in DOMAIN evaluated

\* C9: the residual registered as Poisson_2D is the sum of the second partials of phi in
\* x and in y: on phi = a*x^2 + b*y^2 it is the constant 2a + 2b, identically zero when
\* a = -b.
C9_Laplacian ==
    HasEvaluated =>
        /\ evaluated.Poisson_2D = ConstPoly(2 * evaluated.a + 2 * evaluated.b)
        /\ (evaluated.a = -evaluated.b => evaluated.Poisson_2D = ZeroPoly)

C9_Witness ==
    /\ HasEvaluated
    /\ evaluated.a = MaxCoef /\ evaluated.b = -MaxCoef
    /\ evaluated.Poisson_2D = ZeroPoly
    /\ evaluated.u # ZeroPoly

BoundaryEntries == {i \in DOMAIN trainDomain : trainDomain[i].sd.kind = "boundary"}

\* C10: the boundary conditions never conflict: at every point lying in the regions of
\* two boundary sub-domains, both prescribe the same target pair (u, v), for every alpha.
C10_NoConflict ==
    \A i \in BoundaryEntries, j \in BoundaryEntries : \A p \in Points :
        (i < j /\ InRegion(trainDomain[i].sd, p) /\ InRegion(trainDomain[j].sd, p)) =>
            \A a \in AlphaRange :
                /\ RatEq(Target(trainDomain[i].sd, p, a)[1], Target(trainDomain[j].sd, p, a)[1])
                /\ RatEq(Target(trainDomain[i].sd, p, a)[2], Target(trainDomain[j].sd, p, a)[2])

Overlap(n1, n2, p) == InRegion(SubDomain(n1), p) /\ InRegion(SubDomain(n2), p)

C10_Witness ==
    /\ Registered("Inlet") /\ Registered("Outlet") /\ Registered("BottomWall")
    /\ Registered("obstacleLine") /\ Registered("wakeLine")
    /\ Overlap("Inlet", "BottomWall", <<-(width \div 2), -(height \div 2)>>)
    /\ Overlap("obstacleLine", "wakeLine", TrailingEdge)
    /\ Overlap("wakeLine", "Outlet", WakeFarEnd)

====
